---- MODULE Spec2Model ----
(***************************************************************************)
(* A model of venvjail.py: the package selection of create() / requires(), *)
(* the FileList pattern list, and the relocation pipeline _fix_virtualenv  *)
(* with its seven passes over the destination tree.                        *)
(*                                                                         *)
(* Text is modelled at token granularity: a package name or a pattern is a *)
(* sequence of tokens, a file is a sequence of lines, a line a sequence of *)
(* tokens, a file name a sequence of atoms whose concatenation is the      *)
(* name, a path a sequence of names.                                       *)
(***************************************************************************)
EXTENDS Integers, Sequences, FiniteSets, TLC

VARIABLES
    pc,          \* position of the running command
    cmd,         \* the sub-command and its flags
    excludeSrc,  \* content of args.exclude (a sequence of lines) or Missing
    includeSrc,  \* content of args.include (a sequence of lines) or Missing
    exclude,     \* FileList(args.exclude).items
    include,     \* FileList(args.include).items
    repo,        \* package files of args.repo not yet iterated
    payload,     \* what the extractor unpacks for each package file
    included,    \* create(): included
    excluded,    \* create(): excluded
    cands,       \* requires() / _filter_binary_name(): the names given
    todo,        \* requires(): names not yet iterated
    in_venv,     \* requires(): in_venv
    ret,         \* value returned by the last FileList method call
    trace,       \* external calls and passes, in the order they happened
    fs,          \* the filesystem: absolute path -> node
    fs0,         \* the filesystem when the running pass started
    walk,        \* state of the running os.walk / glob iteration
    diag,        \* soft errors printed so far
    out          \* the files create() wrote after the pipeline, in order

selVars == <<excludeSrc, includeSrc, exclude, include, repo, payload,
             included, excluded, cands, todo, in_venv, ret>>
treeVars == <<fs, fs0, walk, diag, out>>
vars == <<pc, cmd, trace, selVars, treeVars>>

(***************************************************************************)
(* Bounds of the model.                                                    *)
(***************************************************************************)
MaxLines == 2      \* lines of an include / exclude file
MaxNameLen == 2    \* tokens of a candidate name (before its extension)

(***************************************************************************)
(* Sequences.                                                              *)
(***************************************************************************)
SeqsUpTo(S, n) == UNION {[1..k -> S] : k \in 0..n}

Range(s) == {s[i] : i \in DOMAIN s}

Last(s) == s[Len(s)]

Front(s) == SubSeq(s, 1, Len(s) - 1)

IsPrefix(p, s) == Len(p) <= Len(s) /\ SubSeq(s, 1, Len(p)) = p

Drop(s, k) == SubSeq(s, k + 1, Len(s))

(***************************************************************************)
(* Regular expressions of the pattern files.  A pattern is a sequence of   *)
(* tokens: AnyStar is ".*", EndAnchor is "$", every other token is a       *)
(* literal.  A candidate is a sequence of literal tokens.                  *)
(***************************************************************************)
AnyStar == ".*"
EndAnchor == "$"

\* The pattern matches a prefix of s (the regex engine tried at one position).
RECURSIVE MatchHere(_, _)
MatchHere(pat, s) ==
    IF pat = <<>> THEN TRUE
    ELSE IF Head(pat) = AnyStar
         THEN \E k \in 0..Len(s) : MatchHere(Tail(pat), Drop(s, k))
    ELSE IF Head(pat) = EndAnchor
         THEN s = <<>> /\ MatchHere(Tail(pat), s)
    ELSE s # <<>> /\ Head(s) = Head(pat) /\ MatchHere(Tail(pat), Tail(s))

\* re.search: the pattern matches at some position of s.
ReSearch(pat, s) == \E k \in 0..Len(s) : MatchHere(pat, Drop(s, k))

\* Mutant of ReMatch: partial match anywhere in the candidate.
ReMatchAnywhere(pat, s) == ReSearch(pat, s)

\* re.match (Pattern.match): the pattern matches at the start of s.
ReMatch(pat, s) == MatchHere(pat, s)

(***************************************************************************)
(* FileList.                                                               *)
(***************************************************************************)
Missing == <<<<"ENOENT">>>>
Space == " "
Hash == "#"

RECURSIVE LStrip(_)
LStrip(l) == IF l # <<>> /\ Head(l) = Space THEN LStrip(Tail(l)) ELSE l

RECURSIVE RStrip(_)
RStrip(l) == IF l # <<>> /\ Last(l) = Space THEN RStrip(Front(l)) ELSE l

\* str.strip()
Strip(l) == RStrip(LStrip(l))

\* FileList.__init__: the stripped lines that are neither empty nor comments;
\* no items when the file cannot be opened.
RECURSIVE LoadLines(_)
LoadLines(lines) ==
    IF lines = <<>> THEN <<>>
    ELSE LET l == Strip(Head(lines)) IN
         IF l # <<>> /\ Head(l) # Hash
         THEN <<l>> \o LoadLines(Tail(lines))
         ELSE LoadLines(Tail(lines))

FileListInit(src) == IF src = Missing THEN <<>> ELSE LoadLines(src)

\* FileList.is_populated: the items themselves, used for their truth value.
IsPopulated(items) == items # <<>>

\* FileList.contains / __contains__
Contains(items, item) == \E i \in DOMAIN items : ReMatch(items[i], item)

(***************************************************************************)
(* The filesystem.  A path is a sequence of names; fs maps the physical    *)
(* absolute path of every entry to its node:                               *)
(*   [t |-> "dir",  mode]                                                  *)
(*   [t |-> "file", mode, text, lines]   text = FALSE: not decodable       *)
(*   [t |-> "link", abs, to]             the target string, split at "/"   *)
(* The paths the program handles are relative to the working directory.    *)
(***************************************************************************)
MaxLinkHops == 6   \* symbolic links followed by one path resolution (ELOOP)

Nm(a) == <<a>>
DotDot == Nm("..")
Dot == Nm(".")
NoEnt == <<Nm("ENOENT")>>

Cwd == <<Nm("b")>>                      \* where the command runs
DestDir == <<Nm("d")>>                  \* args.dest_dir
Relocated == <<Nm("opt"), Nm("venv")>>  \* args.relocate, default /opt/venv
TreeRoot == Cwd \o DestDir

Dir(m) == [t |-> "dir", mode |-> m]
File(m, ls) == [t |-> "file", mode |-> m, text |-> TRUE, lines |-> ls]
Binary(m) == [t |-> "file", mode |-> m, text |-> FALSE, lines |-> <<>>]
AbsLink(to) == [t |-> "link", abs |-> TRUE, to |-> to]
RelLink(to) == [t |-> "link", abs |-> FALSE, to |-> to]

\* Path resolution by the kernel: from the physical directory cur, walk the
\* components rest, following symbolic links (the last one only with follow).
RECURSIVE Resolve(_, _, _, _, _)
Resolve(f, cur, rest, follow, hops) ==
    IF rest = <<>> THEN cur
    ELSE IF cur \notin DOMAIN f \/ f[cur].t # "dir" THEN NoEnt
    ELSE LET c == Head(rest)
             r == Tail(rest)
             nxt == Append(cur, c)
         IN  IF c = Dot THEN Resolve(f, cur, r, follow, hops)
             ELSE IF c = DotDot
                  THEN Resolve(f, IF cur = <<>> THEN cur ELSE Front(cur), r, follow, hops)
             ELSE IF nxt \notin DOMAIN f THEN NoEnt
             ELSE IF f[nxt].t = "link" /\ (r # <<>> \/ follow)
                  THEN IF hops = 0 THEN NoEnt
                       ELSE Resolve(f, IF f[nxt].abs THEN <<>> ELSE cur,
                                    f[nxt].to \o r, follow, hops - 1)
             ELSE Resolve(f, nxt, r, follow, hops)

\* stat() and lstat() of a program path: the physical path of the entry.
Stat(f, p) == Resolve(f, Cwd, p, TRUE, MaxLinkHops)
Lstat(f, p) == Resolve(f, Cwd, p, FALSE, MaxLinkHops)

\* os.path.exists, os.path.islink, os.path.isdir, os.path.isfile
PathExists(f, p) == Stat(f, p) \in DOMAIN f
IsLink(f, p) == Lstat(f, p) \in DOMAIN f /\ f[Lstat(f, p)].t = "link"
IsDir(f, p) == Stat(f, p) \in DOMAIN f /\ f[Stat(f, p)].t = "dir"
IsFile(f, p) == Stat(f, p) \in DOMAIN f /\ f[Stat(f, p)].t = "file"

\* os.readlink
ReadLink(f, p) == f[Lstat(f, p)]

\* Where an entry named by p is created, removed or replaced.
Slot(f, p) ==
    LET par == Stat(f, Front(p))
    IN  IF par \in DOMAIN f /\ f[par].t = "dir" THEN Append(par, Last(p)) ELSE NoEnt

Put(f, q, node) == [x \in DOMAIN f \cup {q} |-> IF x = q THEN node ELSE f[x]]
Remove(f, q) == [x \in DOMAIN f \ {q} |-> f[x]]

\* os.unlink, os.symlink, Path.rename of a non-directory, Path.chmod
Unlink(f, p) == Remove(f, Slot(f, p))
Symlink(f, target, p) == Put(f, Slot(f, p), target)
Rename(f, src, dst) == Put(Remove(f, Slot(f, src)), Slot(f, dst), f[Slot(f, src)])
Chmod(f, p, m) == [f EXCEPT ![Stat(f, p)].mode = m]

\* The names os.scandir / os.listdir give for the directory p.
ListDir(f, p) ==
    LET d == Stat(f, p)
    IN  IF d \in DOMAIN f /\ f[d].t = "dir"
        THEN {Last(x) : x \in {y \in DOMAIN f : Len(y) = Len(d) + 1 /\ IsPrefix(d, y)}}
        ELSE {}

\* os.path.normpath of an absolute path: "." dropped, ".." cancels the
\* component before it, lexically.
RECURSIVE NormInto(_, _)
NormInto(done, rest) ==
    IF rest = <<>> THEN done
    ELSE IF Head(rest) = Dot THEN NormInto(done, Tail(rest))
    ELSE IF Head(rest) = DotDot
         THEN NormInto(IF done = <<>> THEN done ELSE Front(done), Tail(rest))
    ELSE NormInto(Append(done, Head(rest)), Tail(rest))

\* os.path.abspath of a program path
AbsPath(p) == NormInto(<<>>, Cwd \o p)

RECURSIVE CommonLen(_, _)
CommonLen(a, b) ==
    IF a # <<>> /\ b # <<>> /\ Head(a) = Head(b)
    THEN 1 + CommonLen(Tail(a), Tail(b)) ELSE 0

\* os.path.relpath(path, start): the components of the relative path.
RelPath(path, start) ==
    LET p == AbsPath(path)
        s == AbsPath(start)
        i == CommonLen(p, s)
        rel == [k \in 1..(Len(s) - i) |-> DotDot] \o Drop(p, i)
    IN  IF rel = <<>> THEN <<Dot>> ELSE rel

(***************************************************************************)
(* Package selection.                                                      *)
(***************************************************************************)
\* Mutant of Select: the include list is consulted before the exclude list.
SelectIncludeFirst(ex, inc, pkg) ==
    IF IsPopulated(inc) /\ Contains(inc, pkg) THEN "Included"
    ELSE IF Contains(ex, pkg) THEN "Excluded"
    ELSE IF IsPopulated(inc) THEN "Excluded"
    ELSE "Included"

\* create(): the two tests and their continue statements.
Select(ex, inc, pkg) ==
    IF Contains(ex, pkg) THEN "Excluded"
    ELSE IF IsPopulated(inc) /\ ~Contains(inc, pkg) THEN "Excluded"
    ELSE "Included"

\* requires(): the same two tests guarding in_venv.append(pkg).
InVenv(ex, inc, pkg) ==
    IF Contains(ex, pkg) THEN FALSE
    ELSE IF IsPopulated(inc) /\ ~Contains(inc, pkg) THEN FALSE
    ELSE TRUE

\* _filter_binary_name(names, args) on a list of names
FilterBinaryName(names, ex, all) ==
    IF all THEN names ELSE SelectSeq(names, LAMBDA n : ~Contains(ex, n))

Rpm == ".rpm"
Deb == ".deb"

\* Path.suffix of a package file name
Suffix(pkg) == Last(pkg)

\* The extractor on a package: its entries, parents first, each put where
\* its path resolves; an entry whose parent is no directory is skipped.
RECURSIVE Extract(_, _)
Extract(f, entries) ==
    IF entries = <<>> THEN f
    ELSE LET e == Head(entries)
             q == Slot(f, e[1])
         IN  Extract(IF q = NoEnt THEN f ELSE Put(f, q, e[2]), Tail(entries))

(***************************************************************************)
(* _replace and _insert.  A file is a sequence of lines, a line a sequence *)
(* of tokens.  A pattern is a literal token sequence lit followed by       *)
(*   "none":   nothing                                                     *)
(*   "quoted": any text, greedy, up to the last Quote token of the line    *)
(*   "group":  the rest of the line, captured as group 1                   *)
(* and a replacement is a token sequence, followed by the captured group   *)
(* when group is TRUE.  "." matches no newline, so no match spans lines.   *)
(***************************************************************************)
Quote == "\""

Pat(lit, tail) == [lit |-> lit, tail |-> tail]
Repl(text, group) == [text |-> text, group |-> group]

\* Tokens that, read as a regular expression, do not compile (an unbalanced
\* parenthesis): re.sub raises and nothing is replaced.
MetaTokens == {" (x"}

LitAt(line, i, lit) ==
    /\ i + Len(lit) - 1 <= Len(line)
    /\ SubSeq(line, i, i + Len(lit) - 1) = lit
    /\ \A k \in DOMAIN lit : lit[k] \notin MetaTokens

QuotesAfter(line, i) == {j \in i..Len(line) : line[j] = Quote}

MatchesAt(line, i, pat) ==
    /\ LitAt(line, i, pat.lit)
    /\ pat.tail = "quoted" => QuotesAfter(line, i + Len(pat.lit)) # {}

\* Index of the last token of the match that starts at i.
MatchEnd(line, i, pat) ==
    IF pat.tail = "none" THEN i + Len(pat.lit) - 1
    ELSE IF pat.tail = "group" THEN Len(line)
    ELSE CHOOSE j \in QuotesAfter(line, i + Len(pat.lit)) :
            \A k \in QuotesAfter(line, i + Len(pat.lit)) : k <= j

\* re.sub on one line, scanning from token i.
RECURSIVE SubFrom(_, _, _, _)
SubFrom(line, i, pat, repl) ==
    IF i > Len(line) THEN <<>>
    ELSE IF MatchesAt(line, i, pat)
         THEN LET e == MatchEnd(line, i, pat)
                  g == IF repl.group THEN SubSeq(line, i + Len(pat.lit), e) ELSE <<>>
              IN  repl.text \o g \o SubFrom(line, e + 1, pat, repl)
    ELSE <<line[i]>> \o SubFrom(line, i + 1, pat, repl)

\* re.sub(original, line, text) on the text of a file
ReSub(pat, repl, lines) == [k \in DOMAIN lines |-> SubFrom(lines[k], 1, pat, repl)]

\* open(filename).read() succeeds: the entry resolves to a decodable file.
Readable(f, p) == IsFile(f, p) /\ f[Stat(f, p)].text

\* open(filename, "w") succeeds: the owner may write the file, or the
\* command runs as root.
OwnerWrite == {"644", "755", "750", "700"}
Writable(f, p, root) == IsFile(f, p) /\ (root \/ f[Stat(f, p)].mode \in OwnerWrite)

WriteLines(f, p, ls) == [f EXCEPT ![Stat(f, p)].lines = ls]

\* _replace(filename, original, line); the caller checks Readable and
\* Writable, whose failure raises.
Replace(f, p, pat, repl) == WriteLines(f, p, ReSub(pat, repl, f[Stat(f, p)].lines))

\* lines.index(after + "\n") succeeds
HasLine(lines, after) == \E k \in DOMAIN lines : lines[k] = after

IndexOf(lines, after) ==
    CHOOSE k \in DOMAIN lines :
        lines[k] = after /\ \A j \in DOMAIN lines : lines[j] = after => k <= j

InsertAfter(lines, after, line) ==
    LET k == IndexOf(lines, after)
    IN  SubSeq(lines, 1, k) \o <<line>> \o SubSeq(lines, k + 1, Len(lines))

\* _insert(filename, after, line); the caller checks HasLine, whose failure
\* raises ValueError.
Insert(f, p, after, line) ==
    WriteLines(f, p, InsertAfter(f[Stat(f, p)].lines, after, line))

(***************************************************************************)
(* The passes of _fix_virtualenv, one entry at a time.  A step gives the   *)
(* new filesystem f, the soft errors it prints (err) and whether it raised *)
(* (ok = FALSE: the exception is caught nowhere and ends the command).     *)
(***************************************************************************)
\* virtual_env = relocated / dest_dir, and its text
VirtualEnv == Relocated \o DestDir
VenvTok == "/opt/venv/d"

Step(f, err, ok) == [f |-> f, err |-> err, ok |-> ok]

In(sub) == DestDir \o sub

\* _fix_filesystem: dirs
PermTable ==
    << <<In(<<Nm("etc")>>), "755">>,
       <<In(<<Nm("etc"), <<"cron", ".", "daily">> >>), "755">>,
       <<In(<<Nm("etc"), <<"logrotate", ".", "d">> >>), "755">>,
       <<In(<<Nm("etc"), <<"modprobe", ".", "d">> >>), "755">>,
       <<In(<<Nm("etc"), <<"sudoers", ".", "d">> >>), "750">>,
       <<In(<<Nm("srv")>>), "755">>,
       <<In(<<Nm("srv"), Nm("www")>>), "755">>,
       <<In(<<Nm("usr")>>), "755">>,
       <<In(<<Nm("usr"), Nm("share")>>), "755">>,
       <<In(<<Nm("usr"), Nm("share"), Nm("doc")>>), "755">>,
       <<In(<<Nm("usr"), Nm("share"), Nm("doc"), Nm("packages")>>), "755">>,
       <<In(<<Nm("usr"), Nm("share"), Nm("help")>>), "755">>,
       <<In(<<Nm("usr"), Nm("share"), Nm("help"), Nm("C")>>), "755">>,
       <<In(<<Nm("usr"), Nm("share"), Nm("man")>>), "755">>,
       <<In(<<Nm("usr"), Nm("share"), Nm("man"), Nm("man1")>>), "755">>,
       <<In(<<Nm("var")>>), "755">>,
       <<In(<<Nm("var"), Nm("cache")>>), "755">>,
       <<In(<<Nm("var"), Nm("lib")>>), "755">>,
       <<In(<<Nm("var"), Nm("log")>>), "755">> >>

\* _fix_filesystem: the loop over dirs.items()
RECURSIVE FixFilesystemFrom(_, _)
FixFilesystemFrom(f, table) ==
    IF table = <<>> THEN f
    ELSE LET e == Head(table)
         IN  FixFilesystemFrom(IF IsDir(f, e[1]) THEN Chmod(f, e[1], e[2]) ELSE f,
                               Tail(table))

FixFilesystem(f) == FixFilesystemFrom(f, PermTable)

\* "alternatives" in os.readlink(rel_name)
HasAlternatives(link) == \E k \in DOMAIN link.to : "alternatives" \in Range(link.to[k])

\* Mutant of AltVisit: the link is replaced before the sibling is looked for.
AltVisitUnlinksFirst(f, dirpath, name) ==
    LET rel_name == Append(dirpath, name)
        alt_name == Relocated \o Append(dirpath, Append(name, "-3.8"))
        alt_rel_name == Append(dirpath, Append(name, "-3.8"))
        f1 == Symlink(Unlink(f, rel_name), AbsLink(alt_name), rel_name)
    IN  IF IsLink(f, rel_name) /\ HasAlternatives(ReadLink(f, rel_name))
        THEN IF PathExists(f, alt_rel_name)
             THEN Step(f1, <<>>, TRUE)
             ELSE Step(f1, <<name>>, TRUE)
        ELSE Step(f, <<>>, TRUE)

\* _fix_alternatives: the body of the loop over filenames
AltVisit(f, dirpath, name) ==
    LET rel_name == Append(dirpath, name)
        alt_name == Relocated \o Append(dirpath, Append(name, "-3.8"))
        alt_rel_name == Append(dirpath, Append(name, "-3.8"))
    IN  IF IsLink(f, rel_name) /\ HasAlternatives(ReadLink(f, rel_name))
        THEN IF PathExists(f, alt_rel_name)
             THEN Step(Symlink(Unlink(f, rel_name), AbsLink(alt_name), rel_name), <<>>, TRUE)
             ELSE Step(f, <<name>>, TRUE)
        ELSE Step(f, <<>>, TRUE)

\* Mutant of LinkVisit: a link whose re-rooted target is absent is skipped
\* without a diagnostic.
LinkVisitSilent(f, dirpath, name) ==
    LET rel_name == Append(dirpath, name)
        link_to == DestDir \o ReadLink(f, rel_name).to
    IN  IF IsLink(f, rel_name) /\ ReadLink(f, rel_name).abs /\ PathExists(f, link_to)
        THEN Step(Symlink(Unlink(f, rel_name), RelLink(RelPath(link_to, dirpath)), rel_name),
                  <<>>, TRUE)
        ELSE Step(f, <<>>, TRUE)

\* _fix_broken_links: the body of the loop over chain(dirnames, filenames)
LinkVisit(f, dirpath, name) ==
    LET rel_name == Append(dirpath, name)
        link_to == DestDir \o ReadLink(f, rel_name).to
        rel_link == RelPath(link_to, dirpath)
    IN  IF IsLink(f, rel_name) /\ ReadLink(f, rel_name).abs
        THEN IF PathExists(f, link_to)
             THEN Step(Symlink(Unlink(f, rel_name), RelLink(rel_link), rel_name), <<>>, TRUE)
             ELSE Step(f, <<name>>, TRUE)
        ELSE Step(f, <<>>, TRUE)

\* fnmatch.fnmatch(rel_name, path): a glob is a path, or a path followed by
\* "*", which matches any text, "/" included.
Glob(prefix, star) == [prefix |-> prefix, star |-> star]
FnMatch(rel_name, glob) ==
    IF glob.star
    THEN IsPrefix(glob.prefix, rel_name) /\ Len(rel_name) > Len(glob.prefix)
    ELSE rel_name = glob.prefix

\* shebang = "#!" + os.path.join(virtual_env, "bin", "python")
ShebangMark == "#!"
Python == "python"
Shebang == <<ShebangMark, VenvTok, "/bin/", Python>>

\* line.startswith("#!") and "python" in line
IsPythonShebang(line) == line # <<>> /\ Head(line) = ShebangMark /\ Python \in Range(line)

\* open(rel_name).readline().strip()
FirstLine(f, p) ==
    LET ls == f[Stat(f, p)].lines IN IF ls = <<>> THEN <<>> ELSE Strip(Head(ls))

\* _fix_relocation: the body of the loop over filenames; every exception
\* of the read or of _replace is swallowed.
ShebangVisit(f, dirpath, name, no_relocate_shebang, root) ==
    LET rel_name == Append(dirpath, name)
    IN  IF \E k \in DOMAIN no_relocate_shebang : FnMatch(rel_name, no_relocate_shebang[k])
        THEN Step(f, <<>>, TRUE)
        ELSE IF IsFile(f, rel_name) /\ Readable(f, rel_name)
                /\ IsPythonShebang(FirstLine(f, rel_name))
                /\ Writable(f, rel_name, root)
        THEN Step(Replace(f, rel_name, Pat(FirstLine(f, rel_name), "none"), Repl(Shebang, FALSE)),
                  <<>>, TRUE)
        ELSE Step(f, <<>>, TRUE)

Bin == Nm("bin")

\* _fix_activators: activators, in the order of the dict
Anchor == <<"deactivate nondestructive">>
Activators ==
    << [name |-> <<"activate">>,
        replace |-> <<Pat(<<"VIRTUAL_ENV=", Quote>>, "quoted"),
                      Repl(<<"VIRTUAL_ENV=", Quote, VenvTok, Quote>>, FALSE)>>,
        insert |-> <<Anchor, <<"export LD_LIBRARY_PATH=", Quote, VenvTok, "/lib", Quote>> >>],
       [name |-> <<"activate", ".", "csh">>,
        replace |-> <<Pat(<<"setenv VIRTUAL_ENV ", Quote>>, "quoted"),
                      Repl(<<"setenv VIRTUAL_ENV ", Quote, VenvTok, Quote>>, FALSE)>>,
        insert |-> <<Anchor, <<"setenv LD_LIBRARY_PATH ", Quote, VenvTok, "/lib", Quote>> >>],
       [name |-> <<"activate", ".", "fish">>,
        replace |-> <<Pat(<<"set -gx VIRTUAL_ENV ", Quote>>, "quoted"),
                      Repl(<<"set -gx VIRTUAL_ENV ", Quote, VenvTok, Quote>>, FALSE)>>,
        insert |-> <<Anchor, <<"set -gx LD_LIBRARY_PATH ", Quote, VenvTok, "/lib", Quote>> >>] >>

\* Mutant of ActivatorReplace: the pattern stops after the opening quote, so
\* the old value stays behind the new one.
ActivatorReplaceKeepOld(f, action) ==
    LET filename == In(<<Bin, action.name>>)
    IN  Replace(f, filename, Pat(action.replace[1].lit, "none"), action.replace[2])

\* _fix_activators: _replace(filename, original, line)
ActivatorReplace(f, action) ==
    LET filename == In(<<Bin, action.name>>)
    IN  Replace(f, filename, action.replace[1], action.replace[2])

\* Mutant of ActivatorVisit: a missing anchor is skipped instead of raising.
ActivatorVisitLenient(f, action, root) ==
    LET filename == In(<<Bin, action.name>>)
        f1 == ActivatorReplace(f, action)
    IN  IF ~(Readable(f, filename) /\ Writable(f, filename, root))
        THEN Step(f, <<>>, FALSE)
        ELSE IF HasLine(f1[Stat(f1, filename)].lines, action.insert[1])
        THEN Step(Insert(f1, filename, action.insert[1], action.insert[2]), <<>>, TRUE)
        ELSE Step(f1, <<>>, TRUE)

\* _fix_activators: the body of the loop over activators.items()
ActivatorVisit(f, action, root) ==
    LET filename == In(<<Bin, action.name>>)
        f1 == ActivatorReplace(f, action)
    IN  IF ~(Readable(f, filename) /\ Writable(f, filename, root))
        THEN Step(f, <<>>, FALSE)
        ELSE IF HasLine(f1[Stat(f1, filename)].lines, action.insert[1])
        THEN Step(Insert(f1, filename, action.insert[1], action.insert[2]), <<>>, TRUE)
        ELSE Step(f1, <<>>, FALSE)

\* (dest_dir / "bin").glob("python*")
PythonGlob(name) == Head(name) = Python

Original == "original"

\* The index of the "." that starts Path.suffix, 0 when there is no suffix.
SuffixDot(name) ==
    LET dots == {i \in 2..(Len(name) - 1) : name[i] = "."}
    IN  IF dots = {} THEN 0 ELSE CHOOSE i \in dots : \A j \in dots : j <= i

\* Path.with_suffix("." + suffix) on a file name
WithSuffix(name, suffix) ==
    IF SuffixDot(name) = 0 THEN name \o <<".", suffix>>
    ELSE SubSeq(name, 1, SuffixDot(name) - 1) \o <<".", suffix>>

\* _fix_loader: loader.format(new_python)
Loader(new_name) ==
    << <<"#!/bin/sh">>,
       <<>>,
       <<"export VIRTUAL_ENV=", Quote, VenvTok, Quote>>,
       <<"export PATH=", Quote, "$VIRTUAL_ENV/bin:$PATH", Quote>>,
       <<"export LD_LIBRARY_PATH=", Quote, "$VIRTUAL_ENV/bin", Quote>>,
       <<"exec ", VenvTok, "/bin/">> \o new_name \o <<" ", Quote, "$@", Quote>> >>

\* python.open("w") and f.write(text): an existing file is truncated, a
\* missing one is created with the default mode.
WriteNew(f, p, ls) ==
    IF IsFile(f, p) THEN [f EXCEPT ![Stat(f, p)] = File(f[Stat(f, p)].mode, ls)]
    ELSE Put(f, Slot(f, p), File("644", ls))

\* _fix_loader: the body of the loop over the glob
LoaderVisit(f, name) ==
    LET python == In(<<Bin, name>>)
        new_name == WithSuffix(name, Original)
        target == In(<<Bin, new_name>>)
        f1 == Rename(f, python, target)
    IN  IF Lstat(f, python) \notin DOMAIN f \/ IsDir(f, target)
        THEN Step(f, <<>>, FALSE)
        ELSE Step(Chmod(WriteNew(f1, python, Loader(new_name)), python, "755"), <<>>, TRUE)

\* services_dir.glob("*.service")
ServiceGlob(name) ==
    Len(name) >= 2 /\ name[Len(name) - 1] = "." /\ name[Len(name)] = "service"

SystemdDirs ==
    << In(<<Nm("lib"), Nm("systemd"), Nm("system")>>),
       In(<<Nm("usr"), Nm("lib"), Nm("systemd"), Nm("system")>>) >>

ExecStart == <<Pat(<<"ExecStart=">>, "group"), Repl(<<"ExecStart=", VenvTok>>, TRUE)>>
ExecStartPre ==
    <<Pat(<<"ExecStartPre=", "-">>, "group"), Repl(<<"ExecStartPre=", "-", VenvTok>>, TRUE)>>

\* _fix_systemd_services_in: the body of the loop over the glob
ServiceVisit(f, services_dir, name) ==
    LET service == Append(services_dir, name)
        f1 == Chmod(f, service, "644")
        f2 == Replace(f1, service, ExecStart[1], ExecStart[2])
        f3 == Replace(f2, service, ExecStartPre[1], ExecStartPre[2])
        f4 == Chmod(f3, service, "444")
    IN  IF ~PathExists(f, service) THEN Step(f, <<>>, FALSE)
        ELSE IF ~Readable(f, service) THEN Step(f1, <<>>, FALSE)
        ELSE Step(Rename(f4, service, Append(services_dir, <<"venv-">> \o name)), <<>>, TRUE)

(***************************************************************************)
(* os.walk(top), top down, not following links: Scan lists one directory   *)
(* (dirnames: the entries that are directories, links to directories       *)
(* included), the pass visits its entries, Leave queues the directories    *)
(* that are not links.  stack holds, innermost first, the sets of sibling  *)
(* directories still to walk; siblings are walked in any order.            *)
(***************************************************************************)
Idle == [cur |-> NoEnt, dn |-> {}, fn |-> {}, sub |-> {}, stack |-> <<>>, idx |-> 0]

WalkInit(top) == [Idle EXCEPT !.stack = <<{top}>>]

\* The passes that iterate dirnames as well as filenames.
VisitsDirnames(pass) == pass = "_fix_broken_links"

Scanned(f, w, d, pass) ==
    LET names == ListDir(f, d)
        dirs == {n \in names : IsDir(f, Append(d, n))}
        rest == Head(w.stack) \ {d}
    IN  [cur |-> d,
         dn |-> IF VisitsDirnames(pass) THEN dirs ELSE {},
         fn |-> names \ dirs,
         sub |-> dirs,
         stack |-> IF rest = {} THEN Tail(w.stack) ELSE <<rest>> \o Tail(w.stack),
         idx |-> 0]

Left(f, w) ==
    LET subs == {Append(w.cur, n) : n \in {m \in w.sub : ~IsLink(f, Append(w.cur, m))}}
    IN  [Idle EXCEPT !.stack = IF subs = {} THEN w.stack ELSE <<subs>> \o w.stack]

WalkScan(pass) ==
    /\ pc = pass
    /\ walk.cur = NoEnt
    /\ walk.stack # <<>>
    /\ \E d \in Head(walk.stack) : walk' = Scanned(fs, walk, d, pc)
    /\ UNCHANGED <<pc, cmd, trace, selVars, fs, fs0, diag, out>>

WalkLeave(pass) ==
    /\ pc = pass
    /\ walk.cur # NoEnt
    /\ walk.dn = {}
    /\ walk.fn = {}
    /\ walk' = Left(fs, walk)
    /\ UNCHANGED <<pc, cmd, trace, selVars, fs, fs0, diag, out>>

WalkOver == walk.cur = NoEnt /\ walk.stack = <<>>

\* The snapshot a Path.glob takes of the directory before it yields.
GlobPython(f) ==
    [Idle EXCEPT !.cur = In(<<Bin>>),
                 !.fn = {n \in ListDir(f, In(<<Bin>>)) : PythonGlob(n)}]
GlobServices(f, i) ==
    [Idle EXCEPT !.cur = SystemdDirs[i], !.idx = i,
                 !.fn = {n \in ListDir(f, SystemdDirs[i]) : ServiceGlob(n)}]

Call(fn) == <<"call", fn>>
Return(fn) == <<"return", fn>>
Advance(from, to) == trace \o <<Return(from), Call(to)>>

\* Mutant of NextPass: the repair of the links under srv is called after
\* the relocation of the shebangs.
NextPassLinksLate(pass) ==
    CASE pass = "_fix_filesystem" -> "_fix_alternatives"
      [] pass = "_fix_alternatives" -> "_fix_relocation"
      [] pass = "_fix_relocation" -> "_fix_broken_links"
      [] pass = "_fix_broken_links" -> "_fix_activators"
      [] pass = "_fix_activators" -> "_fix_loader"
      [] pass = "_fix_loader" -> "_fix_systemd_services"

\* _fix_virtualenv: the call that follows the return of a pass.
NextPass(pass) ==
    CASE pass = "_fix_filesystem" -> "_fix_alternatives"
      [] pass = "_fix_alternatives" -> "_fix_broken_links"
      [] pass = "_fix_broken_links" -> "_fix_relocation"
      [] pass = "_fix_relocation" -> "_fix_activators"
      [] pass = "_fix_activators" -> "_fix_loader"
      [] pass = "_fix_loader" -> "_fix_systemd_services"

\* What a pass iterates when it is called on the tree f: its os.walk, its
\* list of activators or its first glob.
EnterPass(pass, f) ==
    CASE pass = "_fix_alternatives" -> WalkInit(DestDir)
      [] pass = "_fix_broken_links" -> WalkInit(In(<<Nm("srv")>>))
      [] pass = "_fix_relocation" -> WalkInit(DestDir)
      [] pass = "_fix_activators" -> [Idle EXCEPT !.idx = 1]
      [] pass = "_fix_loader" -> GlobPython(f)
      [] pass = "_fix_systemd_services" -> GlobServices(f, 1)

\* A pass returns on the tree f and _fix_virtualenv calls the next one.
PassDone(f) ==
    /\ pc' = NextPass(pc)
    /\ walk' = EnterPass(NextPass(pc), f)
    /\ trace' = Advance(pc, NextPass(pc))
    /\ fs0' = f

(***************************************************************************)
(* create()                                                                *)
(***************************************************************************)
NoOut == <<>>

UsrLinks ==
    << <<In(<<Nm("usr")>>), Dir("755")>>,
       <<In(<<Nm("usr"), Bin>>), RelLink(<<DotDot, Bin>>)>>,
       <<In(<<Nm("usr"), Nm("lib")>>), RelLink(<<DotDot, Nm("lib")>>)>>,
       <<In(<<Nm("usr"), Nm("lib64")>>), RelLink(<<DotDot, Nm("lib")>>)>> >>

\* python3 -m venv, usr.mkdir() and the three symlink_to, then the two
\* FileList; usr.mkdir() raises FileExistsError on an existing usr.
CreateBegin ==
    /\ pc = "start"
    /\ cmd.name = "create"
    /\ LET f1 == Extract(fs, cmd.venv)
       IN  IF PathExists(f1, In(<<Nm("usr")>>)) \/ Lstat(f1, In(<<Nm("usr")>>)) \in DOMAIN f1
           THEN /\ fs' = f1
                /\ pc' = "aborted"
                /\ UNCHANGED <<include, exclude>>
           ELSE /\ fs' = Extract(f1, UsrLinks)
                /\ include' = FileListInit(includeSrc)
                /\ exclude' = FileListInit(excludeSrc)
                /\ pc' = "select"
    /\ trace' = Append(trace, Call("venv"))
    /\ UNCHANGED <<cmd, excludeSrc, includeSrc, repo, payload, included, excluded,
                   cands, todo, in_venv, ret, fs0, walk, diag, out>>

\* The packages of *.rpm come before those of *.deb.
NextPackages == IF \E p \in repo : Suffix(p) = Rpm
                THEN {p \in repo : Suffix(p) = Rpm} ELSE repo

Extractor(pkg) == IF Suffix(pkg) = Rpm THEN "_extract_rpm" ELSE "_extract_deb"

\* One iteration of the loop over packages.
SelectStep ==
    /\ pc = "select"
    /\ \E package \in NextPackages :
          /\ repo' = repo \ {package}
          /\ IF Select(exclude, include, package) = "Excluded"
             THEN /\ excluded' = Append(excluded, package)
                  /\ UNCHANGED <<included, fs, trace>>
             ELSE /\ included' = Append(included, package)
                  /\ fs' = Extract(fs, payload[package])
                  /\ trace' = Append(trace, <<Extractor(package), package>>)
                  /\ UNCHANGED excluded
    /\ UNCHANGED <<pc, cmd, excludeSrc, includeSrc, exclude, include, payload,
                   cands, todo, in_venv, ret, fs0, walk, diag, out>>

\* The loop is over: _fix_virtualenv is called and calls _fix_filesystem.
SelectDone ==
    /\ pc = "select"
    /\ repo = {}
    /\ pc' = "_fix_filesystem"
    /\ fs0' = fs
    /\ trace' = trace \o <<Call("_fix_virtualenv"), Call("_fix_filesystem")>>
    /\ UNCHANGED <<cmd, selVars, fs, walk, diag, out>>

FixFilesystemPass ==
    /\ pc = "_fix_filesystem"
    /\ fs' = FixFilesystem(fs)
    /\ PassDone(FixFilesystem(fs))
    /\ UNCHANGED <<cmd, selVars, diag, out>>

AltScan == WalkScan("_fix_alternatives")
AltLeave == WalkLeave("_fix_alternatives")

AltStep ==
    /\ pc = "_fix_alternatives"
    /\ walk.cur # NoEnt
    /\ \E name \in walk.fn :
          LET r == AltVisit(fs, walk.cur, name)
          IN  /\ fs' = r.f
              /\ diag' = diag \o r.err
              /\ walk' = [walk EXCEPT !.fn = @ \ {name}]
    /\ UNCHANGED <<pc, cmd, trace, selVars, fs0, out>>

AltDone ==
    /\ pc = "_fix_alternatives"
    /\ WalkOver
    /\ PassDone(fs)
    /\ UNCHANGED <<cmd, selVars, fs, diag, out>>

LinkScan == WalkScan("_fix_broken_links")
LinkLeave == WalkLeave("_fix_broken_links")

\* chain(dirnames, filenames): the directories first.
LinkStep ==
    /\ pc = "_fix_broken_links"
    /\ walk.cur # NoEnt
    /\ \E name \in (IF walk.dn # {} THEN walk.dn ELSE walk.fn) :
          LET r == LinkVisit(fs, walk.cur, name)
          IN  /\ fs' = r.f
              /\ diag' = diag \o r.err
              /\ walk' = [walk EXCEPT !.dn = @ \ {name}, !.fn = @ \ {name}]
    /\ UNCHANGED <<pc, cmd, trace, selVars, fs0, out>>

LinkDone ==
    /\ pc = "_fix_broken_links"
    /\ WalkOver
    /\ PassDone(fs)
    /\ UNCHANGED <<cmd, selVars, fs, diag, out>>

ShebangScan == WalkScan("_fix_relocation")
ShebangLeave == WalkLeave("_fix_relocation")

ShebangStep ==
    /\ pc = "_fix_relocation"
    /\ walk.cur # NoEnt
    /\ \E name \in walk.fn :
          LET r == ShebangVisit(fs, walk.cur, name, cmd.no_relocate_shebang, cmd.root)
          IN  /\ fs' = r.f
              /\ walk' = [walk EXCEPT !.fn = @ \ {name}]
    /\ UNCHANGED <<pc, cmd, trace, selVars, fs0, diag, out>>

ShebangDone ==
    /\ pc = "_fix_relocation"
    /\ WalkOver
    /\ PassDone(fs)
    /\ UNCHANGED <<cmd, selVars, fs, diag, out>>

\* One iteration of the loop over the activators; an exception ends the
\* command.
ActivatorStep ==
    /\ pc = "_fix_activators"
    /\ walk.idx \in DOMAIN Activators
    /\ LET r == ActivatorVisit(fs, Activators[walk.idx], cmd.root)
       IN  /\ fs' = r.f
           /\ IF r.ok
              THEN /\ walk' = [walk EXCEPT !.idx = @ + 1]
                   /\ pc' = pc
              ELSE /\ walk' = Idle
                   /\ pc' = "aborted"
    /\ UNCHANGED <<cmd, trace, selVars, fs0, diag, out>>

ActivatorsDone ==
    /\ pc = "_fix_activators"
    /\ walk.idx = Len(Activators) + 1
    /\ PassDone(fs)
    /\ UNCHANGED <<cmd, selVars, fs, diag, out>>

LoaderStep ==
    /\ pc = "_fix_loader"
    /\ \E name \in walk.fn :
          LET r == LoaderVisit(fs, name)
          IN  /\ fs' = r.f
              /\ IF r.ok
                 THEN /\ walk' = [walk EXCEPT !.fn = @ \ {name}]
                      /\ pc' = pc
                 ELSE /\ walk' = Idle
                      /\ pc' = "aborted"
    /\ UNCHANGED <<cmd, trace, selVars, fs0, diag, out>>

LoaderDone ==
    /\ pc = "_fix_loader"
    /\ walk.fn = {}
    /\ PassDone(fs)
    /\ UNCHANGED <<cmd, selVars, fs, diag, out>>

ServiceStep ==
    /\ pc = "_fix_systemd_services"
    /\ \E name \in walk.fn :
          LET r == ServiceVisit(fs, walk.cur, name)
          IN  /\ fs' = r.f
              /\ IF r.ok
                 THEN /\ walk' = [walk EXCEPT !.fn = @ \ {name}]
                      /\ pc' = pc
                 ELSE /\ walk' = Idle
                      /\ pc' = "aborted"
    /\ UNCHANGED <<cmd, trace, selVars, fs0, diag, out>>

\* _fix_systemd_services: the next systemd_dir
ServiceDirDone ==
    /\ pc = "_fix_systemd_services"
    /\ walk.fn = {}
    /\ walk.idx < Len(SystemdDirs)
    /\ walk' = GlobServices(fs, walk.idx + 1)
    /\ UNCHANGED <<pc, cmd, trace, selVars, fs, fs0, diag, out>>

\* _fix_systemd_services and _fix_virtualenv return.
ServicesDone ==
    /\ pc = "_fix_systemd_services"
    /\ walk.fn = {}
    /\ walk.idx = Len(SystemdDirs)
    /\ pc' = "log"
    /\ walk' = Idle
    /\ trace' = trace \o <<Return("_fix_systemd_services"), Return("_fix_virtualenv")>>
    /\ fs0' = fs
    /\ UNCHANGED <<cmd, selVars, fs, diag, out>>

\* packages.log
WriteLog ==
    /\ pc = "log"
    /\ out' = Append(out, <<"packages.log", Range(included), Range(excluded)>>)
    /\ pc' = IF cmd.track THEN "track" ELSE "done"
    /\ UNCHANGED <<cmd, trace, selVars, fs, fs0, walk, diag>>

\* The track file, when args.track is given.
WriteTrack ==
    /\ pc = "track"
    /\ out' = Append(out, <<"track", Range(included)>>)
    /\ pc' = "done"
    /\ UNCHANGED <<cmd, trace, selVars, fs, fs0, walk, diag>>

(***************************************************************************)
(* requires() and _filter_binary_name()                                    *)
(***************************************************************************)
RequiresBegin ==
    /\ pc = "start"
    /\ cmd.name = "requires"
    /\ include' = FileListInit(includeSrc)
    /\ exclude' = FileListInit(excludeSrc)
    /\ todo' = cands
    /\ pc' = "requires"
    /\ UNCHANGED <<cmd, trace, excludeSrc, includeSrc, repo, payload, included,
                   excluded, cands, in_venv, ret, treeVars>>

RequiresStep ==
    /\ pc = "requires"
    /\ todo # <<>>
    /\ in_venv' = IF InVenv(exclude, include, Head(todo))
                  THEN Append(in_venv, Head(todo)) ELSE in_venv
    /\ todo' = Tail(todo)
    /\ UNCHANGED <<pc, cmd, trace, excludeSrc, includeSrc, exclude, include, repo,
                   payload, included, excluded, cands, ret, treeVars>>

\* requires = set(requires) - set(in_venv), then printed
RequiresEnd ==
    /\ pc = "requires"
    /\ todo = <<>>
    /\ ret' = Range(cands) \ Range(in_venv)
    /\ pc' = "done"
    /\ UNCHANGED <<cmd, trace, excludeSrc, includeSrc, exclude, include, repo,
                   payload, included, excluded, cands, todo, in_venv, treeVars>>

\* binary() / include(): _filter_binary_name(elements, args), then printed
FilterBinary ==
    /\ pc = "start"
    /\ cmd.name = "binary"
    /\ exclude' = FileListInit(excludeSrc)
    /\ ret' = FilterBinaryName(cands, FileListInit(excludeSrc), cmd.all)
    /\ pc' = "done"
    /\ UNCHANGED <<cmd, trace, excludeSrc, includeSrc, include, repo, payload,
                   included, excluded, cands, todo, in_venv, treeVars>>

(***************************************************************************)
(* Inputs.                                                                 *)
(***************************************************************************)
Command(name) ==
    [name |-> name, all |-> FALSE, root |-> FALSE, track |-> FALSE,
     venv |-> <<>>, no_relocate_shebang |-> <<>>]

\* The host before the command runs: the root, the working directory and
\* the system interpreter.
HostFs ==
    (<<>> :> Dir("755")) @@ (Cwd :> Dir("755")) @@ (<<Nm("usr")>> :> Dir("755"))
    @@ (<<Nm("usr"), Bin>> :> Dir("755"))
    @@ (<<Nm("usr"), Bin, <<Python, "3">>>> :> Binary("755"))

\* A tree given by its entries, parents first.
Tree(entries) == Extract(HostFs, <<<<DestDir, Dir("755")>>>> \o entries)

NameTokens == {"a", "b"}
Names == SeqsUpTo(NameTokens, MaxNameLen) \ {<<>>}

\* Lines of a pattern file: a comment, a blank line, and patterns that tell
\* a match at the start from a match anywhere and from a full match.
LinePool ==
    { <<Space, Hash, "b">>,
      <<Space>>,
      <<"b", Space>>,
      <<AnyStar, "a", EndAnchor>> }
SrcFiles == {Missing} \cup SeqsUpTo(LinePool, MaxLines)

SelectCommands ==
    {Command("create"), Command("requires"), Command("binary"),
     [Command("binary") EXCEPT !.all = TRUE]}

\* The start of a command that selects names: any two pattern files, and a
\* name that is the requirement, or the rpm and the deb of the repository.
InitSelect ==
    /\ pc = "start"
    /\ cmd \in SelectCommands
    /\ excludeSrc \in SrcFiles
    /\ includeSrc \in SrcFiles
    /\ \E n \in Names :
          /\ cands = IF cmd.name = "create" THEN <<>> ELSE <<n>>
          /\ repo = IF cmd.name = "create" THEN {Append(n, Rpm), Append(n, Deb)} ELSE {}
          /\ payload = [p \in {Append(n, Rpm), Append(n, Deb)} |-> <<>>]
    /\ exclude = <<>>
    /\ include = <<>>
    /\ included = <<>>
    /\ excluded = <<>>
    /\ todo = <<>>
    /\ in_venv = <<>>
    /\ ret = <<>>
    /\ trace = <<>>
    /\ fs = HostFs
    /\ fs0 = HostFs
    /\ walk = Idle
    /\ diag = <<>>
    /\ out = NoOut

NextSelect ==
    \/ CreateBegin
    \/ SelectStep
    \/ SelectDone
    \/ RequiresBegin
    \/ RequiresStep
    \/ RequiresEnd
    \/ FilterBinary

SpecSelect == InitSelect /\ [][NextSelect]_vars

(***************************************************************************)
(* A whole run of create().                                                *)
(***************************************************************************)
OldEnv == "/b/d"

\* An activator as python3 -m venv writes it, with or without the anchor.
ActivatorFile(action, anchored) ==
    File("644",
         (IF anchored THEN <<Anchor>> ELSE <<>>)
         \o << action.replace[1].lit \o <<OldEnv, Quote>>, <<"# end">> >>)

\* What python3 -m venv creates; lacking: the activators without anchor.
Venv(lacking) ==
    << <<DestDir, Dir("755")>>,
       <<In(<<Bin>>), Dir("755")>>,
       <<In(<<Nm("lib")>>), Dir("755")>>,
       <<In(<<Bin, <<Python, "3">>>>), AbsLink(<<Nm("usr"), Bin, <<Python, "3">>>>)>>,
       <<In(<<Bin, <<Python>>>>), RelLink(<<<<Python, "3">>>>)>> >>
    \o [i \in DOMAIN Activators |->
          <<In(<<Bin, Activators[i].name>>), ActivatorFile(Activators[i], i \notin lacking)>>]

Script == << <<ShebangMark, "/usr/bin/", Python>>, <<"import sys">> >>
Unit == << <<"[Service]">>, <<"ExecStart=", "/usr/bin/foo", " --flag">>,
           <<"ExecStartPre=", "-", "/usr/bin/pre">> >>
FooService == <<"foo", ".", "service">>

\* A package with links under srv: one whose re-rooted target exists, one
\* whose target is absent, and a link outside srv.
PkgSrv ==
    << <<In(<<Nm("etc")>>), Dir("700")>>,
       <<In(<<Nm("etc"), Nm("f")>>), File("644", <<>>)>>,
       <<In(<<Nm("etc"), Nm("l0")>>), AbsLink(<<Nm("etc"), Nm("f")>>)>>,
       <<In(<<Nm("srv")>>), Dir("700")>>,
       <<In(<<Nm("srv"), Nm("l1")>>), AbsLink(<<Nm("etc"), Nm("f")>>)>>,
       <<In(<<Nm("srv"), Nm("l2")>>), AbsLink(<<Nm("etc"), Nm("none")>>)>> >>

\* A package with a script, an alternatives link with its versioned sibling
\* and one without.
PkgBin ==
    << <<In(<<Nm("usr"), Nm("sbin")>>), Dir("755")>>,
       <<In(<<Nm("usr"), Nm("sbin"), Nm("tool")>>), File("755", Script)>>,
       <<In(<<Nm("usr"), Nm("sbin"), Nm("alt")>>),
         AbsLink(<<Nm("etc"), Nm("alternatives"), Nm("alt")>>)>>,
       <<In(<<Nm("usr"), Nm("sbin"), <<"alt", "-3.8">>>>), Binary("755")>>,
       <<In(<<Nm("usr"), Nm("sbin"), Nm("alt2")>>),
         AbsLink(<<Nm("etc"), Nm("alternatives"), Nm("alt2")>>)>> >>

\* A package with a systemd unit.
PkgUnit ==
    << <<In(<<Nm("usr"), Nm("lib"), Nm("systemd")>>), Dir("755")>>,
       <<In(<<Nm("usr"), Nm("lib"), Nm("systemd"), Nm("system")>>), Dir("755")>>,
       <<In(<<Nm("usr"), Nm("lib"), Nm("systemd"), Nm("system"), FooService>>),
         File("444", Unit)>> >>

PkgA == <<"a", Rpm>>
PkgB == <<"b", Deb>>

Init ==
    /\ pc = "start"
    /\ \E lacking \in {{}, {1}, {3}} :
          cmd \in {[Command("create") EXCEPT !.venv = Venv(lacking), !.track = t] :
                     t \in IF lacking = {} THEN BOOLEAN ELSE {TRUE}}
    /\ excludeSrc \in {Missing, <<<<"b", Space>>>>}
    /\ includeSrc \in {Missing, <<<<Hash>>, <<"b">>>>}
    /\ repo = {PkgA, PkgB}
    /\ \E pa \in {PkgSrv, PkgBin}, pb \in {PkgUnit, PkgSrv} :
          payload = (PkgA :> pa) @@ (PkgB :> pb)
    /\ cands = <<>>
    /\ exclude = <<>>
    /\ include = <<>>
    /\ included = <<>>
    /\ excluded = <<>>
    /\ todo = <<>>
    /\ in_venv = <<>>
    /\ ret = <<>>
    /\ trace = <<>>
    /\ fs = HostFs
    /\ fs0 = HostFs
    /\ walk = Idle
    /\ diag = <<>>
    /\ out = NoOut

Next ==
    \/ CreateBegin
    \/ SelectStep
    \/ SelectDone
    \/ FixFilesystemPass
    \/ AltScan
    \/ AltStep
    \/ AltLeave
    \/ AltDone
    \/ LinkScan
    \/ LinkStep
    \/ LinkLeave
    \/ LinkDone
    \/ ShebangScan
    \/ ShebangStep
    \/ ShebangLeave
    \/ ShebangDone
    \/ ActivatorStep
    \/ ActivatorsDone
    \/ LoaderStep
    \/ LoaderDone
    \/ ServiceStep
    \/ ServiceDirDone
    \/ ServicesDone
    \/ WriteLog
    \/ WriteTrack

Spec == Init /\ [][Next]_vars

(***************************************************************************)
(* Package selection and pattern matching, under SpecSelect.               *)
(***************************************************************************)
\* The three-branch rule of the selection.
Rule(ex, inc, name) ==
    IF Contains(ex, name) THEN "Excluded"
    ELSE IF Len(inc) > 0 /\ ~Contains(inc, name) THEN "Excluded"
    ELSE "Included"

\* The package files create() has iterated so far.
Iterated == IF pc = "start" THEN {} ELSE (DOMAIN payload) \ repo

\* C1: every package create() has iterated is in included when the
\* three-branch rule (exclude match -> Excluded; non-empty include without a
\* match -> Excluded; otherwise Included) says Included and in excluded when
\* it says Excluded, and requires() keeps in in_venv exactly the names the
\* rule includes and reports the others.
C1_SelectionIsThreeBranchRule ==
    /\ cmd.name = "create" =>
          \A p \in Iterated :
              /\ (p \in Range(included)) = (Rule(exclude, include, p) = "Included")
              /\ (p \in Range(excluded)) = (Rule(exclude, include, p) = "Excluded")
    /\ (cmd.name = "requires" /\ pc = "done") =>
          /\ Range(in_venv) = {n \in Range(cands) : Rule(exclude, include, n) = "Included"}
          /\ ret = {n \in Range(cands) : Rule(exclude, include, n) = "Excluded"}

\* C1 witness: create() has excluded a package that both an exclude and an
\* include pattern match.
C1_Witness ==
    /\ cmd.name = "create"
    /\ pc = "select"
    /\ \E p \in Range(excluded) : Contains(exclude, p) /\ Contains(include, p)

\* The names _filter_binary_name dropped: those FileList.contains is true of.
Dropped == {n \in Range(cands) : n \notin Range(ret)}

FilterRan == cmd.name = "binary" /\ ~cmd.all /\ pc = "done"

\* C10 as stated: contains(candidate) is true iff some loaded pattern matches
\* somewhere in the candidate (search semantics), and false for every
\* candidate when the list is empty.
C10_ContainsIsSearch ==
    FilterRan =>
        /\ Dropped = {n \in Range(cands) : \E k \in DOMAIN exclude : ReSearch(exclude[k], n)}
        /\ exclude = <<>> => ret = cands

\* C10 amended: contains(candidate) is true iff some loaded pattern matches
\* at the start of the candidate (not anywhere inside it, and not only the
\* full string), and false for every candidate when the list is empty.
C10_ContainsIsMatchAtStart ==
    FilterRan =>
        /\ Dropped = {n \in Range(cands) : \E k \in DOMAIN exclude : MatchHere(exclude[k], n)}
        /\ exclude = <<>> => ret = cands

\* C10 witness: a name is kept although a loaded pattern matches inside it.
C10_Witness ==
    /\ FilterRan
    /\ \E n \in Range(ret) : \E k \in DOMAIN exclude : ReSearch(exclude[k], n)

(***************************************************************************)
(* The pipeline as a whole, under Spec.                                    *)
(***************************************************************************)
PassOrder ==
    <<"_fix_filesystem", "_fix_alternatives", "_fix_broken_links", "_fix_relocation",
      "_fix_activators", "_fix_loader", "_fix_systemd_services">>

RECURSIVE CallsOf(_)
CallsOf(passes) ==
    IF passes = <<>> THEN <<>>
    ELSE <<Call(Head(passes)), Return(Head(passes))>> \o CallsOf(Tail(passes))

\* The calls and returns of a pipeline that runs to its end.
FullPipeline == <<Call("_fix_virtualenv")>> \o CallsOf(PassOrder) \o <<Return("_fix_virtualenv")>>

PipelineStart == {i \in DOMAIN trace : trace[i] = Call("_fix_virtualenv")}

\* The trace from the first call of the pipeline on.
PipelineTrace ==
    IF PipelineStart = {} THEN <<>>
    ELSE Drop(trace, (CHOOSE i \in PipelineStart : \A j \in PipelineStart : i <= j) - 1)

Extracted(p) == {i \in DOMAIN trace : trace[i] = <<Extractor(p), p>>}

Selected == {p \in DOMAIN payload : Select(exclude, include, p) = "Included"}

ExtractedBeforePipeline ==
    \A p \in DOMAIN payload :
        IF p \in Selected
        THEN /\ Cardinality(Extracted(p)) = 1
             /\ \A i \in Extracted(p), j \in PipelineStart : i < j
        ELSE Extracted(p) = {}

PostPipeline == {"log", "track", "done"}

\* C2 as stated: every run of create() that has ended has called the
\* extractor for every selected package, then the pipeline once, and the
\* pipeline has run its seven passes, each once, in the fixed order.
C2_SevenPassesInEveryRun ==
    pc \in {"done", "aborted"} =>
        /\ ExtractedBeforePipeline
        /\ PipelineTrace = FullPipeline

\* C2 amended: the pipeline is called at most once and only after the
\* extractor has been called once for every selected package (and for no
\* other); its passes are called in the fixed order, each at most once and
\* each only when the one before it has returned; the pass that is running
\* is the one called last; and a run that gets past the pipeline has run all
\* seven passes, each exactly once.
C2_PassesInFixedOrder ==
    /\ Cardinality(PipelineStart) <= 1
    /\ IsPrefix(PipelineTrace, FullPipeline)
    /\ PipelineStart # {} => ExtractedBeforePipeline
    /\ PipelineStart = {} => pc \in {"start", "select"}
    /\ pc \in Range(PassOrder) => Last(trace) = Call(pc)
    /\ pc \in PostPipeline => PipelineTrace = FullPipeline

\* C2 witness: a run that extracted both packages has ended after the seven
\* passes.
C2_Witness ==
    /\ pc = "done"
    /\ Cardinality(Selected) = 2
    /\ ExtractedBeforePipeline
    /\ PipelineTrace = FullPipeline

\* The entries of the destination tree.
InTree(f) == {p \in DOMAIN f : IsPrefix(TreeRoot, p) /\ p # TreeRoot}

AbsLinks(f) == {p \in InTree(f) : f[p].t = "link" /\ f[p].abs}

\* The entries below srv, which the walk of _fix_broken_links visits.
Swept(f) == {p \in InTree(f) : IsPrefix(Append(TreeRoot, Nm("srv")), p) /\ Len(p) > Len(TreeRoot) + 1}

\* C4 as stated: after the pipeline no absolute link of the tree points
\* outside relocated / dest_dir.
C4_NoAbsoluteLinkLeavesThePrefix ==
    pc \in PostPipeline => \A p \in AbsLinks(fs) : IsPrefix(VirtualEnv, fs[p].to)

\* C4 amended: after the pipeline, every absolute link that is left among
\* the entries below srv is one the pass reported as a soft error (its
\* re-rooted target did not exist when the pass visited it); the links
\* outside srv, the renamed bin/python*.original included, are not looked at
\* by the pass and may point anywhere.
C4_SweptAbsoluteLinksWereReported ==
    pc \in PostPipeline =>
        \A p \in AbsLinks(fs) \cap Swept(fs) : Last(p) \in Range(diag)

\* C4 witness: after the pipeline, srv holds a link made relative and an
\* absolute link that was reported, and an absolute link outside srv points
\* outside relocated / dest_dir.
C4_Witness ==
    /\ pc = "done"
    /\ \E p \in Swept(fs) : fs[p].t = "link" /\ ~fs[p].abs
    /\ \E p \in AbsLinks(fs) \cap Swept(fs) : Last(p) \in Range(diag)
    /\ \E p \in AbsLinks(fs) \ Swept(fs) : ~IsPrefix(VirtualEnv, fs[p].to)

\* The activators of the tree f that lack the anchor line.
Lacking(f) ==
    {i \in DOMAIN Activators :
        LET filename == In(<<Bin, Activators[i].name>>)
        IN  ~(IsFile(f, filename) /\ HasLine(f[Stat(f, filename)].lines, Anchor))}

\* What the passes after _fix_activators work on: bin/python* and the
\* *.service files, by physical path.
LaterArtifacts(f) ==
    [p \in {q \in InTree(f) : PythonGlob(Last(q)) \/ ServiceGlob(Last(q))} |-> f[p]]

\* _fix_activators is the pass called last: it runs, or it raised.
InActivators == trace # <<>> /\ Last(trace) = Call("_fix_activators")

\* C5: when an activator lacks the anchor line at the start of
\* _fix_activators, the pass cannot return: it runs up to the first such
\* activator and raises there, which ends the command; no bin/python* and no
\* *.service is changed, renamed or created, and neither packages.log nor
\* the track file is written.
C5_FatalAnchor ==
    /\ [](InActivators /\ Lacking(fs0) # {} =>
            /\ pc \in {"_fix_activators", "aborted"}
            /\ pc = "_fix_activators" =>
                  /\ walk.idx \in DOMAIN Activators
                  /\ \A i \in Lacking(fs0) : walk.idx <= i
            /\ LaterArtifacts(fs) = LaterArtifacts(fs0)
            /\ out = NoOut)
    /\ [][InActivators /\ Lacking(fs0) # {} => pc' \in {"_fix_activators", "aborted"}]_vars
    /\ [](pc \in {"_fix_loader", "_fix_systemd_services"} \cup PostPipeline => Lacking(fs) = {})

\* C5 witness: the command has been ended by the activator pass on a tree
\* with an activator without anchor, with bin/python* and a *.service in
\* the tree.
C5_Witness ==
    /\ pc = "aborted"
    /\ InActivators
    /\ Lacking(fs0) # {}
    /\ \E p \in DOMAIN LaterArtifacts(fs) : PythonGlob(Last(p))
    /\ \E p \in DOMAIN LaterArtifacts(fs) : ServiceGlob(Last(p))
    /\ out = NoOut

(***************************************************************************)
(* One pass on its own, on a tree as create() hands it over.               *)
(***************************************************************************)
\* The tree after python3 -m venv (without its files) and the usr links.
Skeleton ==
    << <<In(<<Bin>>), Dir("755")>>, <<In(<<Nm("lib")>>), Dir("755")>> >> \o UsrLinks

\* The start of a pass of the pipeline of command c on the tree f.
PassInit(pass, cmds, trees) ==
    /\ pc = pass
    /\ cmd \in cmds
    /\ fs \in trees
    /\ fs0 = fs
    /\ walk = EnterPass(pass, fs)
    /\ trace = <<Call("_fix_virtualenv"), Call(pass)>>
    /\ excludeSrc = Missing
    /\ includeSrc = Missing
    /\ exclude = <<>>
    /\ include = <<>>
    /\ repo = {}
    /\ payload = <<>>
    /\ included = <<>>
    /\ excluded = <<>>
    /\ cands = <<>>
    /\ todo = <<>>
    /\ in_venv = <<>>
    /\ ret = <<>>
    /\ diag = <<>>
    /\ out = NoOut

(***************************************************************************)
(* _fix_broken_links on its own, under SpecLinks.                          *)
(***************************************************************************)
\* Targets of the links a package may ship.
LinkTargets ==
    { AbsLink(<<Nm("etc"), Nm("f")>>),
      AbsLink(<<Nm("etc"), Nm("none")>>),
      AbsLink(<<Nm("usr"), Bin, DotDot, Nm("etc"), Nm("f")>>),
      AbsLink(<<Nm("srv"), Nm("www")>>),
      AbsLink(<<Nm("etc")>>),
      RelLink(<<DotDot, Nm("etc"), Nm("f")>>) }

\* A tree with a link in srv and a link in srv/www.
LinkTree(l1, l2) ==
    Tree(Skeleton \o
         << <<In(<<Nm("etc")>>), Dir("755")>>,
            <<In(<<Nm("etc"), Nm("f")>>), File("644", <<>>)>>,
            <<In(<<Nm("srv")>>), Dir("755")>>,
            <<In(<<Nm("srv"), Nm("www")>>), Dir("755")>>,
            <<In(<<Nm("srv"), Nm("l1")>>), l1>>,
            <<In(<<Nm("srv"), Nm("www"), Nm("l2")>>), l2>> >>)

InitLinks ==
    PassInit("_fix_broken_links", {Command("create")},
             {LinkTree(l1, l2) : l1 \in LinkTargets, l2 \in LinkTargets})

NextLinks ==
    \/ LinkScan
    \/ LinkStep
    \/ LinkLeave
    \/ LinkDone

SpecLinks == InitLinks /\ [][NextLinks]_vars

\* Where the kernel ends up from the physical path p, links followed.
Physical(f, p) == Resolve(f, <<>>, p, TRUE, MaxLinkHops)

\* The absolute links of the swept directories of the tree f whose target,
\* re-rooted at the tree root, resolves to an existing path inside the tree.
Repairable(f) ==
    {p \in AbsLinks(f) \cap Swept(f) :
        LET P == Physical(f, TreeRoot \o f[p].to)
        IN  P \in DOMAIN f /\ IsPrefix(TreeRoot, P)}

\* C3: when the loop of _fix_broken_links is over, every link that was
\* absolute at its start with a re-rooted target resolving to an existing
\* path P inside the tree is a relative link that resolves to P.
C3_RelativizedLinkResolvesToSameTarget ==
    (pc = "_fix_broken_links" /\ WalkOver) =>
        \A p \in Repairable(fs0) :
            /\ p \in DOMAIN fs
            /\ fs[p].t = "link"
            /\ ~fs[p].abs
            /\ Physical(fs, p) = Physical(fs0, TreeRoot \o fs0[p].to)

(***************************************************************************)
(* _fix_systemd_services on its own, under SpecSystemd.                    *)
(***************************************************************************)
Plain == << <<"[Unit]">>, <<"Description=", "ExecStart">> >>

ServiceNames == {<<"foo", ".", "service">>, <<"bar", ".", "service">>, <<"baz", ".", "service">>}

\* The units a package has put in usr/lib/systemd/system: for each name
\* none, a unit with both lines, or a unit without them.
RECURSIVE UnitEntries(_, _)
UnitEntries(names, text) ==
    IF names = {} THEN <<>>
    ELSE LET n == CHOOSE x \in names : TRUE
         IN  (IF text[n] = <<>> THEN <<>>
              ELSE << <<In(<<Nm("usr"), Nm("lib"), Nm("systemd"), Nm("system"), n>>),
                        File("444", text[n])>> >>)
             \o UnitEntries(names \ {n}, text)

UnitTree(text) ==
    Tree(Skeleton \o
         << <<In(<<Nm("usr"), Nm("lib"), Nm("systemd")>>), Dir("755")>>,
            <<In(<<Nm("usr"), Nm("lib"), Nm("systemd"), Nm("system")>>), Dir("755")>> >>
         \o UnitEntries(ServiceNames, text))

InitSystemd ==
    PassInit("_fix_systemd_services", {Command("create")},
             {UnitTree(text) : text \in [ServiceNames -> {<<>>, Unit, Plain}]})

NextSystemd ==
    \/ ServiceStep
    \/ ServiceDirDone
    \/ ServicesDone

SpecSystemd == InitSystemd /\ [][NextSystemd]_vars

\* The *.service files of the two systemd directories of the tree f.
Services(f) ==
    {p \in InTree(f) :
        /\ f[p].t = "file"
        /\ ServiceGlob(Last(p))
        /\ \E i \in DOMAIN SystemdDirs : Front(p) = Stat(f, SystemdDirs[i])}

\* A line of a unit with the relocation target put once before the path.
Prefixed(line) ==
    IF line # <<>> /\ Head(line) = "ExecStart="
    THEN <<"ExecStart=", VenvTok>> \o Tail(line)
    ELSE IF Len(line) >= 2 /\ SubSeq(line, 1, 2) = <<"ExecStartPre=", "-">>
    THEN <<"ExecStartPre=", "-", VenvTok>> \o Drop(line, 2)
    ELSE line

\* The two globs of _fix_systemd_services are over.
ServicesOver ==
    pc = "_fix_systemd_services" /\ walk.fn = {} /\ walk.idx = Len(SystemdDirs)

\* C6: when the systemd pass is over, every *.service file that was in one
\* of the two directories at its start exists only as venv-<name>, is
\* read-only (0444), and holds the former lines with the relocation target
\* put exactly once after ExecStart= and after ExecStartPre=- and every
\* other line unchanged.
C6_UnitPrefixedOnceAndRenamed ==
    ServicesOver =>
        \A p \in Services(fs0) :
            LET renamed == Append(Front(p), <<"venv-">> \o Last(p))
            IN  /\ p \notin DOMAIN fs
                /\ renamed \in DOMAIN fs
                /\ fs[renamed].t = "file"
                /\ fs[renamed].mode = "444"
                /\ fs[renamed].lines = [k \in DOMAIN fs0[p].lines |-> Prefixed(fs0[p].lines[k])]

(***************************************************************************)
(* _fix_loader on its own, under SpecLoader.                               *)
(***************************************************************************)
\* An interpreter binary, told from the others by its content.
Interp(name) == [t |-> "file", mode |-> "755", text |-> FALSE, lines |-> <<<<"ELF">> \o name>>]

PythonNames == {<<Python>>, <<Python, "3">>, <<Python, "3", ".", "8">>}

\* What bin may hold under a python* name: nothing, a binary, or a link as
\* python3 -m venv makes them.
PythonEntry(n) ==
    { <<>>,
      <<<<In(<<Bin, n>>), Interp(n)>>>>,
      <<<<In(<<Bin, n>>),
          IF n = <<Python, "3">> THEN AbsLink(<<Nm("usr"), Bin, <<Python, "3">>>>)
          ELSE RelLink(<<<<Python, "3">>>>)>>>> }

InitLoader ==
    PassInit("_fix_loader", {Command("create")},
             {Tree(Skeleton \o a \o b \o c) :
                 a \in PythonEntry(<<Python>>),
                 b \in PythonEntry(<<Python, "3">>),
                 c \in PythonEntry(<<Python, "3", ".", "8">>)})

NextLoader ==
    \/ LoaderStep
    \/ LoaderDone

SpecLoader == InitLoader /\ [][NextLoader]_vars

BinDir == Append(TreeRoot, Bin)

\* The python* entries of bin in the tree f.
Pythons(f) == {n \in ListDir(f, In(<<Bin>>)) : PythonGlob(n)}

\* C7: when the loop of _fix_loader is over, for every python* entry N that
\* bin held at its start, bin/N.original (the name with the suffix appended)
\* is what bin/N was, and bin/N is an executable (0755) wrapper that exports
\* VIRTUAL_ENV and execs bin/N.original under the relocation target with
\* the arguments forwarded.
C7_OriginalKeptUnderAppendedSuffix ==
    (pc = "_fix_loader" /\ walk.fn = {}) =>
        \A n \in Pythons(fs0) :
            LET kept == Append(BinDir, n \o <<".", Original>>)
                shim == Append(BinDir, n)
            IN  /\ kept \in DOMAIN fs
                /\ fs[kept] = fs0[shim]
                /\ shim \in DOMAIN fs
                /\ fs[shim].t = "file"
                /\ fs[shim].mode = "755"
                /\ fs[shim].lines = Loader(n \o <<".", Original>>)

(***************************************************************************)
(* _fix_relocation on its own, under SpecShebang.                          *)
(***************************************************************************)
Tool == In(<<Bin, Nm("tool")>>)

\* --no-relocate-shebang lists: none, the script itself, bin/*, usr/*.
GlobLists ==
    { <<>>,
      <<Glob(Tool, FALSE)>>,
      <<Glob(In(<<Bin>>), TRUE)>>,
      <<Glob(In(<<Nm("usr")>>), TRUE)>> }

\* A tree with the script bin/tool and, next to it, nothing, a link to it
\* or a second script.
ShebangTree(mode, other) ==
    Tree(Skeleton \o <<<<Tool, File(mode, Script)>>>> \o other)

InitShebang ==
    PassInit("_fix_relocation",
             {[Command("create") EXCEPT !.no_relocate_shebang = g, !.root = r] :
                 g \in GlobLists, r \in BOOLEAN},
             {ShebangTree(mode, other) :
                 mode \in {"755", "444"},
                 other \in { <<>>,
                             <<<<In(<<Bin, Nm("t2")>>), RelLink(<<Nm("tool")>>)>>>>,
                             <<<<In(<<Bin, Nm("t2")>>), File("755", Script)>>>> }})

NextShebang ==
    \/ ShebangScan
    \/ ShebangStep
    \/ ShebangLeave
    \/ ShebangDone

SpecShebang == InitShebang /\ [][NextShebang]_vars

\* The path under which os.walk(dest_dir) yields the entry p of the tree.
WalkedPath(p) == In(Drop(p, Len(TreeRoot)))

\* The files of the tree f whose walked path matches an exclusion glob.
ExcludedFiles(f, globs) ==
    {p \in InTree(f) :
        /\ f[p].t = "file"
        /\ \E k \in DOMAIN globs : FnMatch(WalkedPath(p), globs[k])}

\* C8: when the loop of _fix_relocation is over, every file whose walked
\* path matches an exclusion glob has the lines it had at the start, its
\* first line included.
C8_ExcludedFileKeepsItsLines ==
    (pc = "_fix_relocation" /\ WalkOver) =>
        \A p \in ExcludedFiles(fs0, cmd.no_relocate_shebang) :
            p \in DOMAIN fs /\ fs[p] = fs0[p]

(***************************************************************************)
(* _fix_activators and its replace edit on their own, under                *)
(* SpecActivators.                                                         *)
(***************************************************************************)
MaxLineLen == 4   \* tokens of the line drawn for the activators
MaxEdits == 2     \* replace edits applied besides those of the pass

\* The tokens of a drawn line: the start of the assignment in the dialect
\* of the activator, a double quote, and a value.
Key == "KEY"
LineTokens == {Key, Quote, OldEnv}
Lines == SeqsUpTo(LineTokens, MaxLineLen)

\* The drawn line in the dialect of an activator.
InDialect(line, action) ==
    [k \in DOMAIN line |-> IF line[k] = Key THEN action.replace[1].lit[1] ELSE line[k]]

\* A tree whose three activators hold the anchor and the drawn line.
ActivatorTree(line) ==
    Tree(Skeleton \o
         [i \in DOMAIN Activators |->
            <<In(<<Bin, Activators[i].name>>),
              File("644", <<Anchor, InDialect(line, Activators[i])>>)>>])

InitActivators ==
    PassInit("_fix_activators", {Command("create")},
             {ActivatorTree(line) : line \in Lines})

Edit(i) == <<"_replace", i>>

Edits == {k \in DOMAIN trace : \E i \in DOMAIN Activators : trace[k] = Edit(i)}

\* _replace(filename, original, line) with the pair of an activator, on its
\* own.
ReplaceEdit ==
    /\ pc \in {"_fix_activators", "_fix_loader"}
    /\ Cardinality(Edits) < MaxEdits
    /\ \E i \in DOMAIN Activators :
          LET filename == In(<<Bin, Activators[i].name>>)
          IN  /\ Readable(fs, filename)
              /\ Writable(fs, filename, cmd.root)
              /\ fs' = ActivatorReplace(fs, Activators[i])
              /\ trace' = Append(trace, Edit(i))
    /\ UNCHANGED <<pc, cmd, selVars, fs0, walk, diag, out>>

NextActivators ==
    \/ ActivatorStep
    \/ ActivatorsDone
    \/ ReplaceEdit

SpecActivators == InitActivators /\ [][NextActivators]_vars

\* The replace edit has been applied to activator i: on its own, or by the
\* pass.
Patched(i) ==
    \/ Edit(i) \in Range(trace)
    \/ pc = "_fix_activators" /\ walk.idx > i
    \/ pc = "_fix_loader"

\* C9: a replace edit applied to an activator that the replace edit has
\* already been applied to changes nothing in the tree.
C9_ReplaceAgainChangesNothing ==
    [][\A i \in DOMAIN Activators :
          (trace' = Append(trace, Edit(i)) /\ Patched(i)) => fs' = fs]_vars

\* C9 witness: before the pass has patched anything, the replace edit has
\* been applied twice to an activator whose assignment it has rewritten.
C9_Witness ==
    /\ pc = "_fix_activators"
    /\ walk.idx = 1
    /\ \E i \in DOMAIN Activators :
          LET file == Stat(fs, In(<<Bin, Activators[i].name>>))
          IN  /\ Cardinality({k \in DOMAIN trace : trace[k] = Edit(i)}) = 2
              /\ fs[file].lines # fs0[file].lines
              /\ \E k \in DOMAIN fs[file].lines :
                    VenvTok \in Range(fs[file].lines[k])

(***************************************************************************)
(* Soft errors, under Spec.                                                *)
(***************************************************************************)
\* The entry the step of a walking pass has visited.
Visited == (walk.dn \cup walk.fn) \ (walk'.dn \cup walk'.fn)

\* The step visits one entry of the directory being walked and leaves the
\* others to be visited.
VisitsOne ==
    /\ walk.cur # NoEnt
    /\ walk'.cur = walk.cur
    /\ Cardinality(Visited) = 1
    /\ walk'.dn \cup walk'.fn = (walk.dn \cup walk.fn) \ Visited
    /\ walk'.stack = walk.stack
    /\ walk'.sub = walk.sub

\* The step prints a soft error of _fix_alternatives or _fix_broken_links.
PrintsSoftError ==
    pc \in {"_fix_alternatives", "_fix_broken_links"} /\ diag' # diag

\* The step inspects a file that cannot be decoded and is not excluded.
InspectsUndecodable ==
    /\ pc = "_fix_relocation"
    /\ walk.cur # NoEnt
    /\ walk'.fn # walk.fn
    /\ \E name \in walk.fn \ walk'.fn :
          /\ IsFile(fs, Append(walk.cur, name))
          /\ ~Readable(fs, Append(walk.cur, name))
          /\ \A k \in DOMAIN cmd.no_relocate_shebang :
                ~FnMatch(Append(walk.cur, name), cmd.no_relocate_shebang[k])

\* C11: a step that meets a soft error (an alternatives link without its
\* versioned sibling, an absolute link whose re-rooted target is absent, a
\* file that cannot be decoded when its first line is inspected) leaves the
\* whole tree as it was, stays in the pass and leaves every other entry of
\* the directory to be visited; no such step ends the command, which is
\* only ever ended by the activator pass on a missing anchor.
C11_SoftErrorsNeverAbort ==
    /\ [][(PrintsSoftError \/ InspectsUndecodable) =>
            /\ fs' = fs
            /\ pc' = pc
            /\ VisitsOne]_vars
    /\ [](pc = "aborted" => InActivators /\ Lacking(fs0) # {})

\* C11 witness: a run in which all three kinds of soft error happened has
\* ended after the seven passes: both passes printed a soft error, and a
\* file that cannot be decoded is still in the tree as it was.
C11_Witness ==
    /\ pc = "done"
    /\ PipelineTrace = FullPipeline
    /\ Nm("alt2") \in Range(diag)
    /\ Nm("l2") \in Range(diag)
    /\ \E p \in InTree(fs) : fs[p].t = "file" /\ ~fs[p].text

(***************************************************************************)
(* _fix_relocation on scripts of any shape, under SpecShebangLines.        *)
(***************************************************************************)
PythonLine == <<ShebangMark, "/usr/bin/", Python>>

\* First lines: a python shebang, one with an argument that is no regular
\* expression, one followed by blanks, a shell shebang, no shebang.
FirstLines ==
    { PythonLine,
      PythonLine \o <<" (x">>,
      PythonLine \o <<Space>>,
      <<ShebangMark, "/bin/sh">>,
      <<"import os">> }

\* Later lines: code, the shebang again, the shebang inside a line.
LaterLines ==
    { <<"import sys">>,
      PythonLine,
      <<"echo ">> \o PythonLine }

InitShebangLines ==
    PassInit("_fix_relocation",
             {[Command("create") EXCEPT !.root = r] : r \in BOOLEAN},
             {Tree(Skeleton \o <<<<Tool, File(mode, <<first, later>>)>>>>) :
                 mode \in {"755", "444"}, first \in FirstLines, later \in LaterLines})

SpecShebangLines == InitShebangLines /\ [][NextShebang]_vars

\* The regular files of the tree f.
RegularFiles(f) == {p \in InTree(f) : f[p].t = "file" /\ f[p].text}

\* C12: when the loop of _fix_relocation is over, every regular file whose
\* first line starts with #! and contains python has the new shebang as
\* its first line and its other lines as they were, and every other regular
\* file is as it was.
C12_OnlyTheFirstLineIsReplaced ==
    (pc = "_fix_relocation" /\ WalkOver) =>
        \A p \in RegularFiles(fs0) :
            /\ p \in DOMAIN fs
            /\ IF IsPythonShebang(Strip(Head(fs0[p].lines)))
               THEN /\ fs[p].lines = <<Shebang>> \o Tail(fs0[p].lines)
                    /\ fs[p].mode = fs0[p].mode
               ELSE fs[p] = fs0[p]

(***************************************************************************)
(* The five passes that iterate a walk or a glob, under SpecOrder: every   *)
(* order of the entries of a directory and of sibling directories.         *)
(***************************************************************************)
IteratingPasses ==
    {"_fix_alternatives", "_fix_broken_links", "_fix_relocation",
     "_fix_loader", "_fix_systemd_services"}

\* bin/alt is an alternatives link; its sibling alt-3.8 is missing, a
\* binary, or itself an alternatives link next to its own sibling.
AltTrees ==
    {Tree(Skeleton \o <<<<In(<<Bin, Nm("alt")>>),
                         AbsLink(<<Nm("etc"), Nm("alternatives"), Nm("alt")>>)>>>> \o sibling) :
        sibling \in
          { <<>>,
            <<<<In(<<Bin, <<"alt", "-3.8">>>>), Binary("755")>>>>,
            << <<In(<<Bin, Nm("alternatives")>>), Dir("755")>>,
               <<In(<<Bin, Nm("alternatives"), Nm("x")>>), Binary("755")>>,
               <<In(<<Bin, <<"alt", "-3.8">>>>), RelLink(<<Nm("alternatives"), Nm("x")>>)>>,
               <<In(<<Bin, <<"alt", "-3.8", "-3.8">>>>), Binary("755")>> >> }}

\* srv/l1 and srv/l2: links to a file of the tree, to nothing, and to each
\* other.
ChainTrees ==
    {Tree(Skeleton \o
          << <<In(<<Nm("etc")>>), Dir("755")>>,
             <<In(<<Nm("etc"), Nm("f")>>), File("644", <<>>)>>,
             <<In(<<Nm("srv")>>), Dir("755")>>,
             <<In(<<Nm("srv"), Nm("l1")>>), l1>>,
             <<In(<<Nm("srv"), Nm("l2")>>), l2>> >>) :
        l1 \in {AbsLink(<<Nm("srv"), Nm("l2")>>), AbsLink(<<Nm("etc"), Nm("f")>>)},
        l2 \in {AbsLink(<<Nm("etc"), Nm("f")>>), AbsLink(<<Nm("etc"), Nm("none")>>),
                AbsLink(<<Nm("srv"), Nm("l1")>>), RelLink(<<DotDot, Nm("etc"), Nm("f")>>)}}

\* lib/systemd/system with foo.service and, next to it, nothing, a second
\* unit, a unit that already has the name foo.service will get, or a link
\* to foo.service.
CollidingTrees ==
    {Tree(Skeleton \o
          << <<In(<<Nm("lib"), Nm("systemd")>>), Dir("755")>>,
             <<In(<<Nm("lib"), Nm("systemd"), Nm("system")>>), Dir("755")>>,
             <<In(<<Nm("lib"), Nm("systemd"), Nm("system"), FooService>>), File("444", Unit)>> >>
          \o other) :
        other \in
          { <<>>,
            <<<<In(<<Nm("lib"), Nm("systemd"), Nm("system"), <<"bar", ".", "service">>>>),
                File("444", Unit)>>>>,
            <<<<In(<<Nm("lib"), Nm("systemd"), Nm("system"), <<"venv-">> \o FooService>>),
                File("444", Plain)>>>>,
            <<<<In(<<Nm("lib"), Nm("systemd"), Nm("system"), <<"bar", ".", "service">>>>),
                RelLink(<<FooService>>)>>>> }}

InitOrder ==
    \/ PassInit("_fix_alternatives", {Command("create")}, AltTrees)
    \/ PassInit("_fix_broken_links", {Command("create")}, ChainTrees)
    \/ PassInit("_fix_relocation", {Command("create")},
                {ShebangTree("755", other) :
                    other \in { <<>>,
                                <<<<In(<<Bin, Nm("t2")>>), RelLink(<<Nm("tool")>>)>>>>,
                                <<<<In(<<Bin, Nm("t2")>>), File("755", <<PythonLine, PythonLine>>)>>>> }})
    \/ PassInit("_fix_loader", {Command("create")},
                {Tree(Skeleton \o a \o b \o c) :
                    a \in PythonEntry(<<Python>>),
                    b \in PythonEntry(<<Python, "3">>),
                    c \in PythonEntry(<<Python, "3", ".", "8">>)})
    \/ PassInit("_fix_systemd_services", {Command("create")}, CollidingTrees)

NextOrder ==
    \/ AltScan
    \/ AltStep
    \/ AltLeave
    \/ LinkScan
    \/ LinkStep
    \/ LinkLeave
    \/ ShebangScan
    \/ ShebangStep
    \/ ShebangLeave
    \/ LoaderStep
    \/ ServiceStep
    \/ ServiceDirDone

SpecOrder == InitOrder /\ [][NextOrder]_vars

\* The body of the loop of the pass on the entry name of the listing w.
Visit(pass, f, w, name, c) ==
    CASE pass = "_fix_alternatives" -> AltVisit(f, w.cur, name)
      [] pass = "_fix_broken_links" -> LinkVisit(f, w.cur, name)
      [] pass = "_fix_relocation" ->
             ShebangVisit(f, w.cur, name, c.no_relocate_shebang, c.root)
      [] pass = "_fix_loader" -> LoaderVisit(f, name)
      [] pass = "_fix_systemd_services" -> ServiceVisit(f, w.cur, name)

\* The tree the pass leaves when it runs from the tree f and the listing w
\* and takes the entries in one fixed order.
RECURSIVE OneOrder(_, _, _, _)
OneOrder(pass, f, w, c) ==
    LET pending == IF w.dn # {} THEN w.dn ELSE w.fn
    IN  IF w.cur # NoEnt /\ pending # {}
        THEN LET name == CHOOSE n \in pending : TRUE
                 r == Visit(pass, f, w, name, c)
             IN  IF r.ok
                 THEN OneOrder(pass, r.f, [w EXCEPT !.dn = @ \ {name}, !.fn = @ \ {name}], c)
                 ELSE r.f
        ELSE IF pass = "_fix_loader" THEN f
        ELSE IF pass = "_fix_systemd_services"
        THEN IF w.idx < Len(SystemdDirs)
             THEN OneOrder(pass, f, GlobServices(f, w.idx + 1), c)
             ELSE f
        ELSE IF w.cur # NoEnt THEN OneOrder(pass, f, Left(f, w), c)
        ELSE IF w.stack = <<>> THEN f
        ELSE OneOrder(pass, f, Scanned(f, w, CHOOSE d \in Head(w.stack) : TRUE, pass), c)

\* The pass that was called last.
Running == Last(trace)[2]

\* The loop of the running pass is over or has raised.
LoopOver ==
    \/ pc \in {"_fix_alternatives", "_fix_broken_links", "_fix_relocation"} /\ WalkOver
    \/ pc = "_fix_loader" /\ walk.fn = {}
    \/ pc = "_fix_systemd_services" /\ walk.fn = {} /\ walk.idx = Len(SystemdDirs)
    \/ pc = "aborted" /\ Running \in IteratingPasses

\* C13: whatever the order in which the walk or the glob of a pass yielded
\* the entries, the tree at the end of the pass is the tree the pass leaves
\* when it takes them in one fixed order.
C13_OrderOfEntriesDoesNotMatter ==
    LoopOver => fs = OneOrder(Running, fs0, EnterPass(Running, fs0), cmd)

====
